---- MODULE Spec2Model ----
(***************************************************************************)
(* import-tiingo: the end-of-day quote ingestion run.                      *)
(*                                                                         *)
(*   rootCmd.Run      (src/cmd/tickers.go, src/unnamed/part_000)           *)
(*   FetchEodQuotes   (src/tiingo/download.go)                             *)
(*   SaveToParquet    (src/tiingo/download.go)                             *)
(*   SaveToDatabase   (called by rootCmd.Run; its body is not part of the  *)
(*                     sources, it is modelled from spec.md 4.6 and 6)     *)
(***************************************************************************)
EXTENDS Integers, Sequences, FiniteSets, TLC

\* ------------------------------------------------------------------ bounds
MaxAssets == 2
MaxQuotes == 2
MaxRate == 2
MaxLatency == 1

\* ------------------------------------------------------------- data model
Names == <<"A", "B", "C", "D", "E", "F">>

\* The instrument universe handed to the run: distinct tickers, every second
\* one in the share-class form that holds a '/'.
TickerOf(i) == IF i % 2 = 0 THEN <<Names[i], "/", "B">> ELSE <<Names[i]>>

Asset(i) ==
  [ CompositeFigi |-> <<"F", "G", Names[i]>>,
    Ticker        |-> TickerOf(i),
    Exchange      |-> "NYSE",
    AssetType     |-> "Stock" ]

Universe(n) == [i \in 1..n |-> Asset(i)]

\* The fields of an Eod that the provider payload carries after
\* json.Unmarshal: the struct's json tags let the payload set any of them.
PayloadQuote(d) ==
  [ Date          |-> d,
    Ticker        |-> <<"p">>,
    Exchange      |-> "payload",
    AssetType     |-> "payload",
    CompositeFigi |-> <<"p">>,
    Close         |-> 1 ]

PayloadArray(m) == [d \in 1..m |-> PayloadQuote(d)]

\* A response body: bytes that json.Unmarshal rejects, or a JSON array of
\* quote objects.
Malformed == [kind |-> "malformed", quotes |-> <<>>]
ArrayBody(m) == [kind |-> "array", quotes |-> PayloadArray(m)]
Bodies == {Malformed} \cup {ArrayBody(m) : m \in 0..MaxQuotes}

Statuses == {200, 404}

\* What client.R().Get(url) can return: a transport error carries no HTTP
\* status and no body; otherwise any status with any body.
Responses ==
  {[err |-> TRUE, status |-> 0, body |-> Malformed]}
    \cup {[err |-> FALSE, status |-> s, body |-> b] : s \in Statuses, b \in Bodies}

NoResp == [err |-> FALSE, status |-> 0, body |-> Malformed]

\* A sink that rootCmd.Run has not reached: its configuration key is unread.
NotCalled == [called |-> FALSE, cfg |-> "unread"]

\* The relational store: a canonical-schema table and a legacy-schema table,
\* each a set of rows.
\* No universe is loaded (the ticker command, the sink on its own).
NoUniverse == [items |-> <<>>, cap |-> 0]

\* A nil *Asset: the zero value of an element of the backing array that lies
\* beyond the length of the slice.
NilAsset == [nil |-> TRUE]

EmptyStore == [canonical |-> {}, legacy |-> {}]

VARIABLES
  loaded,      \* the slice ReadAssetsFromDatabase returned: its items and capacity
  limit,       \* the --max flag (maxAssets)
  assets,      \* []*Asset handed to FetchEodQuotes
  pc,          \* position of rootCmd.Run / FetchEodQuotes
  idx,         \* index of the range loop over assets
  bar,         \* progress bar ticks
  rate,        \* viper.GetInt("tiingo_rate_limit")
  tokens,      \* permits the limiter can still hand out in this second
  now,         \* wall clock, in seconds
  takeLog,     \* asset index of every completed limit.Take()
  requests,    \* every GET issued: asset index, ticker path segment, time
  resp,        \* the response the current iteration is handling
  waited,      \* seconds the current request has been on the wire
  outcomes,    \* per finished iteration: how its fetch ended, and the
               \* number of quote objects its response body delivered
  quotes,      \* the merged []*Eod
  parquet,     \* the columnar sink: whether called, with what, and its result
  db,          \* the upsert sink: whether called, and with what
  store,       \* the relational store: its canonical and its legacy table
  dbIdx,       \* the record SaveToDatabase is writing
  dbRun,       \* per application of SaveToDatabase: connection, write log
  storeAfter   \* the store as each finished application left it

sinkVars == <<store, dbIdx, dbRun, storeAfter>>

runVars == <<loaded, limit>>

fetchVars == <<assets, idx, bar, rate, tokens, now, takeLog, requests, resp,
               waited, outcomes, quotes>>

vars == <<runVars, fetchVars, pc, parquet, db, sinkVars>>

\* ------------------------------------------------------------ FetchEodQuotes
\* fmt.Sprintf(".../tiingo/daily/%s/prices?...", asset.Ticker): the ticker is
\* substituted as it is.
UrlPathSegment(ticker) == ticker

\* json.Unmarshal(data, &quote)
ParseOk(body) == body.kind = "array"

\* The stamping loop over the parsed quotes.
Stamp(q, asset) ==
  [q EXCEPT !.Ticker = asset.Ticker,
            !.Exchange = asset.Exchange,
            !.AssetType = asset.AssetType,
            !.CompositeFigi = asset.CompositeFigi]

StampAll(qs, asset) == [k \in 1..Len(qs) |-> Stamp(qs[k], asset)]

\* How the fetch of one iteration ended, by the error the code logs for it.
Outcome(r) ==
  IF r.err THEN "network_error"
  ELSE IF r.status >= 400 THEN "http_error"
  ELSE IF ~ParseOk(r.body) THEN "parse_error"
  ELSE "ok"

\* The records one iteration appends to quotes.
Parsed(r, asset) ==
  IF ParseOk(r.body) THEN StampAll(r.body.quotes, asset) ELSE <<>>

\* The state at the call of FetchEodQuotes in a run of the root command with
\* the default --max (-1): the whole universe is handed over.
Init ==
  /\ assets \in {Universe(n) : n \in 0..MaxAssets}
  /\ loaded = [items |-> assets, cap |-> Len(assets)]
  /\ limit = -1
  /\ pc = "loop"
  /\ idx = 1
  /\ bar = 0
  /\ rate \in 1..MaxRate
  /\ tokens = rate
  /\ now = 0
  /\ takeLog = <<>>
  /\ requests = <<>>
  /\ resp = NoResp
  /\ waited = 0
  /\ outcomes = <<>>
  /\ quotes = <<>>
  /\ parquet = NotCalled
  /\ db = NotCalled
  /\ store = EmptyStore
  /\ dbIdx = 1
  /\ dbRun = <<>>
  /\ storeAfter = <<>>

\* for _, asset := range assets { bar.Add(1) ... } ; return quotes
LoopNext ==
  /\ pc = "loop"
  /\ IF idx <= Len(assets)
       THEN /\ bar' = bar + 1
            /\ pc' = "take"
       ELSE /\ bar' = bar
            /\ pc' = "fetched"
  /\ UNCHANGED <<runVars, assets, idx, rate, tokens, now, takeLog, requests, resp,
                 waited, outcomes, quotes, parquet, db, sinkVars>>

\* Faulty variant of Take: the call returns at once when the limiter has no permit.
TakeNoBlock ==
  /\ pc = "take"
  /\ tokens' = IF tokens > 0 THEN tokens - 1 ELSE 0
  /\ takeLog' = Append(takeLog, idx)
  /\ pc' = "get"
  /\ UNCHANGED <<runVars, assets, idx, bar, rate, now, requests, resp, waited, outcomes,
                 quotes, parquet, db, sinkVars>>

\* Faulty variant of Take: the limiter hands out a permit only while another
\* one is left, so a limit of one operation per second never admits a call.
TakeNeedsSpare ==
  /\ pc = "take"
  /\ tokens > 1
  /\ tokens' = tokens - 1
  /\ takeLog' = Append(takeLog, idx)
  /\ pc' = "get"
  /\ UNCHANGED <<runVars, assets, idx, bar, rate, now, requests, resp, waited, outcomes,
                 quotes, parquet, db, sinkVars>>

\* limit.Take(): returns once the limiter has a permit.
Take ==
  /\ pc = "take"
  /\ tokens > 0
  /\ tokens' = tokens - 1
  /\ takeLog' = Append(takeLog, idx)
  /\ pc' = "get"
  /\ UNCHANGED <<runVars, assets, idx, bar, rate, now, requests, resp, waited, outcomes,
                 quotes, parquet, db, sinkVars>>

\* client.R().SetHeader(...).Get(url): the request goes out.  Building the
\* url reads asset.Ticker, which panics on a nil asset.
Get ==
  /\ pc = "get"
  /\ IF DOMAIN assets[idx] = DOMAIN NilAsset
       THEN /\ requests' = requests
            /\ pc' = "panic"
       ELSE /\ requests' = Append(requests,
                              [asset |-> idx,
                               path  |-> UrlPathSegment(assets[idx].Ticker),
                               time  |-> now])
            /\ pc' = "await"
  /\ UNCHANGED <<runVars, assets, idx, bar, rate, tokens, now, takeLog, resp, waited,
                 outcomes, quotes, parquet, db, sinkVars>>

\* Get returns: the caller is blocked until the response (or error) is in.
Respond ==
  /\ pc = "await"
  /\ \E r \in Responses : resp' = r
  /\ waited' = 0
  /\ pc' = "handle"
  /\ UNCHANGED <<runVars, assets, idx, bar, rate, tokens, now, takeLog, requests,
                 outcomes, quotes, parquet, db, sinkVars>>

\* Faulty variant of Handle: a fetch that did not end well ends the loop.
HandleBreakOnError ==
  /\ pc = "handle"
  /\ outcomes' = Append(outcomes, [end       |-> Outcome(resp),
                                   delivered |-> Len(resp.body.quotes)])
  /\ quotes' = quotes \o Parsed(resp, assets[idx])
  /\ resp' = NoResp
  /\ idx' = idx + 1
  /\ pc' = IF Outcome(resp) = "ok" THEN "loop" ELSE "fetched"
  /\ UNCHANGED <<runVars, assets, bar, rate, tokens, now, takeLog, requests, waited,
                 parquet, db, sinkVars>>

\* Faulty variant of Handle: the parsed slice replaces the merged slice instead
\* of being appended to it (quotes = quote).
HandleOverwrite ==
  /\ pc = "handle"
  /\ outcomes' = Append(outcomes, [end       |-> Outcome(resp),
                                   delivered |-> Len(resp.body.quotes)])
  /\ quotes' = Parsed(resp, assets[idx])
  /\ resp' = NoResp
  /\ idx' = idx + 1
  /\ pc' = "loop"
  /\ UNCHANGED <<runVars, assets, bar, rate, tokens, now, takeLog, requests, waited,
                 parquet, db, sinkVars>>

\* Faulty variant of Handle: the parsed slice goes in front of the merged slice.
HandlePrepend ==
  /\ pc = "handle"
  /\ outcomes' = Append(outcomes, [end       |-> Outcome(resp),
                                   delivered |-> Len(resp.body.quotes)])
  /\ quotes' = Parsed(resp, assets[idx]) \o quotes
  /\ resp' = NoResp
  /\ idx' = idx + 1
  /\ pc' = "loop"
  /\ UNCHANGED <<runVars, assets, bar, rate, tokens, now, takeLog, requests, waited,
                 parquet, db, sinkVars>>

\* The rest of the loop body: log err, log status >= 400, unmarshal the body,
\* stamp and append.
Handle ==
  /\ pc = "handle"
  /\ outcomes' = Append(outcomes, [end       |-> Outcome(resp),
                                   delivered |-> Len(resp.body.quotes)])
  /\ quotes' = quotes \o Parsed(resp, assets[idx])
  /\ resp' = NoResp
  /\ idx' = idx + 1
  /\ pc' = "loop"
  /\ UNCHANGED <<runVars, assets, bar, rate, tokens, now, takeLog, requests, waited,
                 parquet, db, sinkVars>>

\* One second passes: the limiter admits `rate` operations per second.  Time
\* passes while Take blocks, and while a request is on the wire.
Tick ==
  /\ \/ /\ pc = "take"
        /\ tokens = 0
        /\ waited' = waited
     \/ /\ pc = "await"
        /\ waited < MaxLatency
        /\ waited' = waited + 1
  /\ now' = now + 1
  /\ tokens' = rate
  /\ UNCHANGED <<runVars, assets, pc, idx, bar, rate, takeLog, requests, resp, outcomes,
                 quotes, parquet, db, sinkVars>>

\* ------------------------------------------------------------- SaveToParquet
\* Where the columnar sink can fail: opening the file, creating the writer,
\* the final WriteStop; "none" when all three succeed.
ParquetFaults == {"none", "open", "writer", "stop"}

\* SaveToParquet(records, fn), with `fault` the step that fails and k the
\* number of records whose pw.Write returns an error (each is logged and the
\* loop goes on).  rows counts the pw.Write calls that succeeded; reported
\* holds the NumRecords of the closing "Parquet write finished" log line.
SaveToParquet(records, fn, fault, k) ==
  IF fault \in {"open", "writer"}
    THEN [called |-> TRUE, cfg |-> fn, received |-> records, err |-> fault,
          rows |-> 0, reported |-> <<>>]
    ELSE IF fault = "stop"
      THEN [called |-> TRUE, cfg |-> fn, received |-> records, err |-> fault,
            rows |-> Len(records) - k, reported |-> <<>>]
      ELSE [called |-> TRUE, cfg |-> fn, received |-> records, err |-> "none",
            rows |-> Len(records) - k, reported |-> <<Len(records)>>]

\* --------------------------------------------------------------- rootCmd.Run
ParquetFiles == {"", "eod.parquet"}
DatabaseUrls == {"", "host=localhost port=5432"}

\* Faulty variant of RunSaveToParquet: Run returns when SaveToParquet returns an error.
RunSaveToParquetAbort ==
  /\ pc = "fetched"
  /\ \E fn \in ParquetFiles :
       IF fn # ""
         THEN \E fault \in ParquetFaults, k \in 0..Len(quotes) :
                /\ parquet' = SaveToParquet(quotes, fn, fault, k)
                /\ pc' = IF fault = "none" THEN "parquet_done" ELSE "done"
         ELSE /\ parquet' = [called |-> FALSE, cfg |-> fn]
              /\ pc' = "parquet_done"
  /\ UNCHANGED <<runVars, fetchVars, db, sinkVars>>

MaxSpare == 1
MaxLimit == 3

\* assets[:n] with n within the capacity: the first n elements of the backing
\* array, which are nil beyond the length of the slice.
Reslice(s, n) ==
  [i \in 1..n |-> IF i <= Len(s.items) THEN s.items[i] ELSE NilAsset]

\* assets := common.ReadAssetsFromDatabase(...);
\* if maxAssets > 0 { assets = assets[:maxAssets] }
\* The slice expression panics when maxAssets exceeds the capacity.
RunLoad ==
  /\ pc = "start"
  /\ IF limit > 0
       THEN IF limit > loaded.cap
              THEN /\ assets' = assets
                   /\ pc' = "panic"
              ELSE /\ assets' = Reslice(loaded, limit)
                   /\ pc' = "loop"
       ELSE /\ assets' = loaded.items
            /\ pc' = "loop"
  /\ UNCHANGED <<runVars, idx, bar, rate, tokens, now, takeLog, requests, resp,
                 waited, outcomes, quotes, parquet, db, sinkVars>>

\* if viper.GetString("parquet_file") != "" { tiingo.SaveToParquet(quotes, ...) }
\* The error SaveToParquet returns is dropped.
RunSaveToParquet ==
  /\ pc = "fetched"
  /\ \E fn \in ParquetFiles :
       IF fn # ""
         THEN \E fault \in ParquetFaults, k \in 0..Len(quotes) :
                parquet' = SaveToParquet(quotes, fn, fault, k)
         ELSE parquet' = [called |-> FALSE, cfg |-> fn]
  /\ pc' = "parquet_done"
  /\ UNCHANGED <<runVars, fetchVars, db, sinkVars>>

\* if viper.GetString("database.url") != "" { tiingo.SaveToDatabase(quotes) }
RunSaveToDatabase ==
  /\ pc = "parquet_done"
  /\ \E url \in DatabaseUrls :
       IF url # ""
         THEN db' = [called |-> TRUE, cfg |-> url, received |-> quotes]
         ELSE db' = [called |-> FALSE, cfg |-> url]
  /\ pc' = "done"
  /\ UNCHANGED <<runVars, fetchVars, parquet, sinkVars>>

\* ------------------------------------------------------------ SaveToDatabase
\* The upsert sink that rootCmd.Run calls: connect, then for each record a
\* conflict-resolving upsert into the canonical table and, when that fails,
\* the same statement against the legacy table.
Source == "api.tiingo.com"

RowOf(rec) ==
  [ ticker         |-> rec.Ticker,
    composite_figi |-> rec.CompositeFigi,
    event_date     |-> rec.Date,
    close          |-> rec.Close,
    source         |-> Source ]

\* The natural key of a row: instrument and trade date.
SameKey(r1, r2) == r1.ticker = r2.ticker /\ r1.event_date = r2.event_date

\* Faulty variant of Upsert: a plain INSERT, with no conflict clause.
UpsertInsertOnly(table, row) == table \cup {row}

\* INSERT ... ON CONFLICT (ticker, event_date) DO UPDATE: insert if absent,
\* otherwise overwrite the price and source fields of the row that is there.
Upsert(table, row) ==
  IF \E r \in table : SameKey(r, row)
    THEN {IF SameKey(r, row)
            THEN [r EXCEPT !.close = row.close, !.source = row.source]
            ELSE r : r \in table}
    ELSE table \cup {row}

\* The log of the application of SaveToDatabase that is running, with one
\* more write attempt.
Logged(stage, ok) ==
  [dbRun EXCEPT ![Len(dbRun)].log =
     Append(@, [rec |-> dbIdx, stage |-> stage, ok |-> ok])]

\* Open the connection; a failure aborts the whole save.
DbConnect ==
  /\ pc = "db_connect"
  /\ \E ok \in BOOLEAN :
       /\ dbRun' = Append(dbRun, [conn |-> ok, log |-> <<>>])
       /\ IF ok
            THEN /\ pc' = "db_loop"
                 /\ storeAfter' = storeAfter
            ELSE /\ pc' = "db_done"
                 /\ storeAfter' = Append(storeAfter, store)
  /\ dbIdx' = 1
  /\ UNCHANGED <<runVars, fetchVars, parquet, db, store>>

\* for each record of the set; the save returns after the last one.
DbLoop ==
  /\ pc = "db_loop"
  /\ IF dbIdx <= Len(db.received)
       THEN /\ pc' = "db_canonical"
            /\ storeAfter' = storeAfter
       ELSE /\ pc' = "db_done"
            /\ storeAfter' = Append(storeAfter, store)
  /\ UNCHANGED <<runVars, fetchVars, parquet, db, store, dbIdx, dbRun>>

\* Faulty variant of DbCanonical: a failed canonical upsert ends the save.
DbCanonicalAbort ==
  /\ pc = "db_canonical"
  /\ \E ok \in BOOLEAN :
       /\ dbRun' = Logged("canonical", ok)
       /\ IF ok
            THEN /\ store' = [store EXCEPT !.canonical =
                                Upsert(@, RowOf(db.received[dbIdx]))]
                 /\ dbIdx' = dbIdx + 1
                 /\ pc' = "db_loop"
                 /\ storeAfter' = storeAfter
            ELSE /\ store' = store
                 /\ dbIdx' = dbIdx
                 /\ pc' = "db_done"
                 /\ storeAfter' = Append(storeAfter, store)
  /\ UNCHANGED <<runVars, fetchVars, parquet, db>>

\* The canonical upsert of one record; on failure the fallback is next.
DbCanonical ==
  /\ pc = "db_canonical"
  /\ \E ok \in BOOLEAN :
       /\ dbRun' = Logged("canonical", ok)
       /\ IF ok
            THEN /\ store' = [store EXCEPT !.canonical =
                                Upsert(@, RowOf(db.received[dbIdx]))]
                 /\ dbIdx' = dbIdx + 1
                 /\ pc' = "db_loop"
            ELSE /\ store' = store
                 /\ dbIdx' = dbIdx
                 /\ pc' = "db_legacy"
  /\ UNCHANGED <<runVars, fetchVars, parquet, db, storeAfter>>

\* The legacy-schema fallback of one record; its failure is logged only.
DbLegacy ==
  /\ pc = "db_legacy"
  /\ \E ok \in BOOLEAN :
       /\ dbRun' = Logged("legacy", ok)
       /\ store' = IF ok
                     THEN [store EXCEPT !.legacy =
                             Upsert(@, RowOf(db.received[dbIdx]))]
                     ELSE store
  /\ dbIdx' = dbIdx + 1
  /\ pc' = "db_loop"
  /\ UNCHANGED <<runVars, fetchVars, parquet, db, storeAfter>>

\* The next run of the batch job hands the sink the same record set again.
Reapply ==
  /\ pc = "db_done"
  /\ Len(dbRun) < 2
  /\ pc' = "db_connect"
  /\ UNCHANGED <<runVars, fetchVars, parquet, db, sinkVars>>

Next ==
  \/ LoopNext
  \/ Take
  \/ Get
  \/ Respond
  \/ Handle
  \/ Tick
  \/ RunSaveToParquet
  \/ RunSaveToDatabase

Spec == Init /\ [][Next]_vars

\* FetchEodQuotes alone, from its call to its return.
NextFetch ==
  \/ LoopNext
  \/ Take
  \/ Get
  \/ Respond
  \/ Handle
  \/ Tick

\* Fair scheduling: the one thread of the program keeps running while it has
\* a step to take, the clock of the limiter keeps advancing while a Take is
\* blocked on it, and every HTTP call returns.
Fairness ==
  /\ WF_vars(LoopNext)
  /\ WF_vars(Take)
  /\ WF_vars(Get)
  /\ WF_vars(Respond)
  /\ WF_vars(Handle)
  /\ WF_vars(Tick)

SpecFair == Init /\ [][NextFetch]_vars /\ Fairness

\* ------------------------------------------------- rootCmd.Run with --max
\* The run from its start: the universe as loaded (n instruments in a slice
\* of some capacity >= n) and any value of the --max flag.
InitLimit ==
  /\ loaded \in {[items |-> Universe(n), cap |-> c] :
                  n \in 0..MaxAssets, c \in 0..MaxAssets + MaxSpare}
  /\ loaded.cap >= Len(loaded.items)
  /\ loaded.cap <= Len(loaded.items) + MaxSpare
  /\ limit \in -1..MaxLimit
  /\ assets = <<>>
  /\ pc = "start"
  /\ idx = 1
  /\ bar = 0
  /\ rate \in 1..MaxRate
  /\ tokens = rate
  /\ now = 0
  /\ takeLog = <<>>
  /\ requests = <<>>
  /\ resp = NoResp
  /\ waited = 0
  /\ outcomes = <<>>
  /\ quotes = <<>>
  /\ parquet = NotCalled
  /\ db = NotCalled
  /\ store = EmptyStore
  /\ dbIdx = 1
  /\ dbRun = <<>>
  /\ storeAfter = <<>>

NextLimit ==
  \/ RunLoad
  \/ LoopNext
  \/ Take
  \/ Get
  \/ Respond
  \/ Handle
  \/ Tick
  \/ RunSaveToParquet
  \/ RunSaveToDatabase

SpecLimit == InitLimit /\ [][NextLimit]_vars

\* ------------------------------------------------------------- tickerCmd.Run
MaxArgs == 2

\* The tickers given on the command line.
ArgPool == {<<"A">>, <<"B">>}

\* asset := &common.Asset{Ticker: arg}: every other field keeps its zero value.
ArgAsset(arg) ==
  [CompositeFigi |-> <<>>, Ticker |-> arg, Exchange |-> "", AssetType |-> ""]

\* The instrument list the ticker command builds from its arguments; cobra
\* requires one argument at least.
ArgAssets(args) == [i \in 1..Len(args) |-> ArgAsset(args[i])]

InitTicker ==
  /\ assets \in {ArgAssets(args) :
                  args \in UNION {[1..n -> ArgPool] : n \in 1..MaxArgs}}
  /\ loaded = NoUniverse
  /\ limit = -1
  /\ pc = "loop"
  /\ idx = 1
  /\ bar = 0
  /\ rate \in 1..MaxRate
  /\ tokens = rate
  /\ now = 0
  /\ takeLog = <<>>
  /\ requests = <<>>
  /\ resp = NoResp
  /\ waited = 0
  /\ outcomes = <<>>
  /\ quotes = <<>>
  /\ parquet = NotCalled
  /\ db = NotCalled
  /\ store = EmptyStore
  /\ dbIdx = 1
  /\ dbRun = <<>>
  /\ storeAfter = <<>>

\* printTable(quotes): the ticker command renders the merged slice and ends.
PrintTable ==
  /\ pc = "fetched"
  /\ pc' = "printed"
  /\ UNCHANGED <<runVars, fetchVars, parquet, db, sinkVars>>

NextTicker ==
  \/ LoopNext
  \/ Take
  \/ Get
  \/ Respond
  \/ Handle
  \/ Tick
  \/ PrintTable

SpecTicker == InitTicker /\ [][NextTicker]_vars

\* ------------------------------------------------- the upsert sink on its own
\* SaveToDatabase applied to any record set FetchEodQuotes can hand it, on a
\* store that may already hold rows for the same keys.
MaxSinkRecords == 2

SinkRecords ==
  {Stamp([PayloadQuote(1) EXCEPT !.Close = c], Asset(i)) :
     i \in {1, 2}, c \in {1, 2}}

SinkInputs ==
  UNION {[1..n -> SinkRecords] : n \in 0..MaxSinkRecords}

KeyedTables ==
  {T \in SUBSET {RowOf(r) : r \in SinkRecords} :
     \A r1, r2 \in T : SameKey(r1, r2) => r1 = r2}

InitUpsert ==
  /\ assets = <<>>
  /\ loaded = NoUniverse
  /\ limit = -1
  /\ pc = "db_connect"
  /\ idx = 1
  /\ bar = 0
  /\ rate = 1
  /\ tokens = 1
  /\ now = 0
  /\ takeLog = <<>>
  /\ requests = <<>>
  /\ resp = NoResp
  /\ waited = 0
  /\ outcomes = <<>>
  /\ quotes \in SinkInputs
  /\ parquet = [called |-> FALSE, cfg |-> ""]
  /\ db = [called |-> TRUE, cfg |-> "host=localhost port=5432",
           received |-> quotes]
  /\ store \in {[canonical |-> T, legacy |-> {}] : T \in KeyedTables}
  /\ dbIdx = 1
  /\ dbRun = <<>>
  /\ storeAfter = <<>>

NextUpsert ==
  \/ DbConnect
  \/ DbLoop
  \/ DbCanonical
  \/ DbLegacy
  \/ Reapply

SpecUpsert == InitUpsert /\ [][NextUpsert]_vars

\* ==================================================================== claims
\* FetchEodQuotes has returned.
Fetched == pc \in {"fetched", "parquet_done", "done"}

\* The records of the merged set that carry instrument i's ticker.
RecordsOf(i) == SelectSeq(quotes, LAMBDA q : q.Ticker = assets[i].Ticker)

\* The fetch of instrument i failed: transport error, HTTP status >= 400 or a
\* body that does not parse.
FetchFailed(i) == outcomes[i].end # "ok"

HasSlash(path) == \E k \in 1..Len(path) : path[k] = "/"

\* strings.ReplaceAll(ticker, "/", "-"), the rewrite the provider expects.
Rewritten(ticker) ==
  [k \in 1..Len(ticker) |-> IF ticker[k] = "/" THEN "-" ELSE ticker[k]]

\* The fetches whose request is out and whose response is not in yet.
InFlight == IF pc = "await" THEN {idx} ELSE {}

\* C1: partial failure isolation.  Once the fetch loop has returned, every
\* instrument was dispatched, the merged set holds every delivered record of
\* each instrument whose fetch succeeded and no record of an instrument whose
\* fetch failed, and each sink that runs is handed that set.
C1_PartialFailureIsolation ==
  Fetched =>
    /\ Len(requests) = Len(assets)
    /\ \A i \in 1..Len(assets) :
         IF FetchFailed(i)
           THEN RecordsOf(i) = <<>>
           ELSE /\ Len(RecordsOf(i)) = outcomes[i].delivered
                /\ \A d \in 1..Len(RecordsOf(i)) : RecordsOf(i)[d].Date = d
    /\ parquet.called => parquet.received = quotes
    /\ db.called => db.received = quotes

\* C2: exactly one fetch attempt per instrument, in list order, whatever the
\* outcome of the earlier fetches: the k-th request is for the k-th
\* instrument, the loop is never ahead of or behind its requests, and when it
\* returns every instrument has been requested.
C2_OneFetchPerInstrument ==
  /\ \A k \in 1..Len(requests) : requests[k].asset = k
  /\ Len(requests) = (IF pc \in {"await", "handle"} THEN idx ELSE idx - 1)
  /\ Len(outcomes) = idx - 1
  /\ Fetched => Len(requests) = Len(assets)

\* The first fetch failed and the second instrument was fetched all the same.
C2_Witness ==
  /\ Fetched
  /\ Len(requests) = 2
  /\ outcomes[1].end \in {"network_error", "http_error", "parse_error"}
  /\ outcomes[2].end = "ok"
  /\ outcomes[2].delivered = 2

\* C3: sink independence.  When SaveToParquet returned an error and a database
\* is configured, the run still ends with SaveToDatabase called, on the merged
\* set exactly as FetchEodQuotes returned it and as SaveToParquet was given it.
C3_SinkIndependence ==
  (pc = "done" /\ parquet.called /\ parquet.err # "none" /\ db.cfg # "")
    => /\ db.called
       /\ db.received = quotes
       /\ db.received = parquet.received

C3_Witness ==
  /\ pc = "done"
  /\ parquet.called
  /\ parquet.err = "open"
  /\ db.called
  /\ Len(db.received) >= 2

\* C4: a fetch that ends in a transport error, an HTTP status >= 400 or an
\* unparseable body contributes no record to the merged set, whatever its
\* body holds.
C4_FailedFetchYieldsNoRecords ==
  \A i \in 1..Len(outcomes) : FetchFailed(i) => RecordsOf(i) = <<>>

\* C5: the path segment of every request is the instrument's ticker with each
\* '/' replaced by '-'; no request path segment holds a '/'.
C5_SlashRewritten ==
  \A k \in 1..Len(requests) :
    /\ requests[k].path = Rewritten(assets[requests[k].asset].Ticker)
    /\ ~HasSlash(requests[k].path)

\* C6: rate-gated dispatch.  Every request follows a completed Take of its own
\* (one permit per fetch, taken before the request goes out), and the number
\* of requests in any window of w seconds is at most rate * w plus a burst of
\* rate.
C6_RateGatedDispatch ==
  /\ \A k \in 1..Len(requests) :
       k <= Len(takeLog) /\ takeLog[k] = requests[k].asset
  /\ Len(takeLog) = (IF pc = "get" THEN Len(requests) + 1 ELSE Len(requests))
  /\ \A t1 \in 0..now : \A t2 \in t1..now :
       Cardinality({k \in 1..Len(requests) : requests[k].time \in t1..t2})
         <= rate * (t2 - t1) + rate

\* The limiter at work: the second's permits are used up by the request that
\* just went out, and the dispatcher is held in Take for the next instrument.
C6_Witness ==
  /\ pc = "take"
  /\ tokens = 0
  /\ Len(requests) >= 1
  /\ requests[Len(requests)].time = now
  /\ idx = Len(requests) + 1

\* C9: the count SaveToParquet reports on completion is the number of records
\* whose write succeeded.
C9_ReportsWrittenCount ==
  (parquet.called /\ parquet.err = "none")
    => parquet.reported = <<parquet.rows>>

\* The write log of application p, and whether that application has returned.
LogOf(p) == dbRun[p].log

Returned(p) == p < Len(dbRun) \/ pc = "db_done"

Attempts(p, stage) == SelectSeq(LogOf(p), LAMBDA e : e.stage = stage)

KeysUnique(table) == \A r1, r2 \in table : SameKey(r1, r2) => r1 = r2

\* C7: idempotent upsert.  When a second application of the sink to the same
\* record set meets the same connection and per-record outcomes as the first,
\* it leaves the store exactly as the first left it; and no table ever holds
\* two rows with the same (ticker, trade date) key.
C7_IdempotentUpsert ==
  /\ KeysUnique(store.canonical)
  /\ KeysUnique(store.legacy)
  /\ \A p \in 1..(Len(storeAfter) - 1) :
       dbRun[p] = dbRun[p + 1] => storeAfter[p + 1] = storeAfter[p]

\* Two records with the same key and different prices, written twice with
\* every canonical upsert succeeding: one row, holding the later price.
C7_Witness ==
  /\ Len(storeAfter) = 2
  /\ dbRun[1] = dbRun[2]
  /\ dbRun[1].conn
  /\ Len(db.received) = 2
  /\ SameKey(RowOf(db.received[1]), RowOf(db.received[2]))
  /\ db.received[1].Close # db.received[2].Close
  /\ \A k \in 1..Len(LogOf(1)) : LogOf(1)[k].ok
  /\ store.canonical = {RowOf(db.received[2])}

\* C8: two-stage write.  In every application that connected, the canonical
\* upsert is attempted once for each record, in order; the fallback is
\* attempted for a record exactly when its canonical upsert failed; no
\* failure ends the loop early.  An application that failed to connect
\* attempts nothing.
C8_TwoStageWrite ==
  \A p \in 1..Len(dbRun) :
    /\ ~dbRun[p].conn => LogOf(p) = <<>>
    /\ \A k \in 1..Len(Attempts(p, "canonical")) :
         Attempts(p, "canonical")[k].rec = k
    /\ \A k \in 1..Len(LogOf(p)) :
         LogOf(p)[k].stage = "legacy" =>
           /\ k > 1
           /\ LogOf(p)[k - 1] =
                [rec |-> LogOf(p)[k].rec, stage |-> "canonical", ok |-> FALSE]
    /\ \A k \in 1..(Len(LogOf(p)) - 1) :
         (LogOf(p)[k].stage = "canonical" /\ ~LogOf(p)[k].ok) =>
           (LogOf(p)[k + 1].stage = "legacy"
              /\ LogOf(p)[k + 1].rec = LogOf(p)[k].rec)
    /\ (Returned(p) /\ dbRun[p].conn) =>
         /\ Len(Attempts(p, "canonical")) = Len(db.received)
         /\ Len(LogOf(p)) > 0 => LogOf(p)[Len(LogOf(p))].stage = "legacy"
                                   \/ LogOf(p)[Len(LogOf(p))].ok

\* The first record failed both stages, the second was written all the same.
C8_Witness ==
  /\ pc = "db_done"
  /\ Len(dbRun) = 1
  /\ Len(db.received) = 2
  /\ LogOf(1) = << [rec |-> 1, stage |-> "canonical", ok |-> FALSE],
                   [rec |-> 1, stage |-> "legacy", ok |-> FALSE],
                   [rec |-> 2, stage |-> "canonical", ok |-> TRUE] >>

\* C10: the dispatcher never waits for a fetch: while a fetch is in flight and
\* instruments remain, the dispatcher is on its way to the next Take, not
\* suspended on the response.
C10_DispatcherNeverWaitsForFetch ==
  \A i \in InFlight : i < Len(assets) => pc \in {"loop", "take", "get"}

\* The number of records the first n finished fetches delivered.
RECURSIVE DeliveredBy(_)
DeliveredBy(n) ==
  IF n = 0 THEN 0 ELSE DeliveredBy(n - 1) + outcomes[n].delivered

OwnerOf(q) == CHOOSE i \in 1..Len(assets) : assets[i].Ticker = q.Ticker

\* C13: merged output order.  The merged slice is ordered by the place of the
\* owning instrument in the instrument list, and the records of one
\* instrument keep the order of the API response (the k-th quote of a body
\* carries date k).  Stated on neighbours: the order is transitive.
C13_MergedOrder ==
  \A k \in 1..Len(quotes) - 1 :
    LET o1 == OwnerOf(quotes[k])
        o2 == OwnerOf(quotes[k + 1])
    IN  \/ o1 < o2
        \/ /\ o1 = o2
           /\ quotes[k].Date < quotes[k + 1].Date

\* Two instruments of two records each, merged.
C13_Witness ==
  /\ Fetched
  /\ Len(assets) = 2
  /\ Len(quotes) = 4
  /\ \A i \in 1..2 : Len(RecordsOf(i)) = 2

\* C14: record identity.  Every merged record has a non-empty ticker and a
\* non-empty composite identifier, both those of an instrument of the list
\* that has been fetched and neither the value carried in the payload,
\* whichever command built the instrument list.
C14_RecordIdentity ==
  \A k \in 1..Len(quotes) :
    /\ quotes[k].Ticker # <<>>
    /\ quotes[k].CompositeFigi # <<>>
    /\ \E i \in 1..Len(outcomes) :
         /\ quotes[k].Ticker = assets[i].Ticker
         /\ quotes[k].CompositeFigi = assets[i].CompositeFigi
    /\ quotes[k].Ticker # PayloadQuote(quotes[k].Date).Ticker
    /\ quotes[k].CompositeFigi # PayloadQuote(quotes[k].Date).CompositeFigi

Min(a, b) == IF a <= b THEN a ELSE b

\* C15: limit truncation.  With a positive --max L the root command fetches
\* the first min(L, n) instruments of the n loaded, in their order, and with
\* L <= 0 all of them; whatever L is, the run goes on to fetch and persist
\* (it does not end in a panic), and every instrument handed over is fetched.
C15_LimitTruncation ==
  /\ pc # "panic"
  /\ pc # "start" =>
       assets = IF limit > 0
                  THEN SubSeq(loaded.items, 1, Min(limit, Len(loaded.items)))
                  ELSE loaded.items
  /\ pc \in {"fetched", "parquet_done", "done"} =>
       /\ Len(requests) = Len(assets)
       /\ \A i \in 1..Len(requests) : requests[i].asset = i

====
